---- MODULE Spec2Model ----
(***************************************************************************)
(* Model of the data_unifier table-normalisation pipeline:                 *)
(*   DataTransformer.detect_location_columns / transform_wide_to_long,     *)
(*   FileProcessor._load_excel / _load_file / _process_single,             *)
(*   SpreadsheetTransformer._extract_core_block / recognize_core_blocks.   *)
(*                                                                         *)
(* A Python string is a sequence of one-character strings, so that the     *)
(* regular expressions of the source are computed character by character.  *)
(* Names never hold a line break.  None is the empty option <<>>, a present*)
(* value v is <<v>>.                                                       *)
(***************************************************************************)
EXTENDS Integers, Sequences, FiniteSets, TLC

VARIABLES
    pc,         \* position of the modelled call
    columns,    \* df.columns handed to detect_location_columns
    detected,   \* (id_cols, loc_cols, value_col) it returned
    df,         \* table handed to transform_wide_to_long
    result,     \* table it returned
    header,     \* df.columns of the sheet being renamed in _load_excel
    new_cols,   \* new_cols of the renaming loop
    seen,       \* seen of the renaming loop
    grid,       \* rows of one worksheet (ws.iter_rows)
    block,      \* (core_block, context) returned by _extract_core_block
    wb,         \* sheets of the workbook, in sheet order
    sheet_i,    \* index of the next sheet of the loop
    dfs,        \* dfs of _load_excel / all_blocks of recognize_core_blocks
    outcome     \* what the workbook call returned or raised

vars == <<pc, columns, detected, df, result, header, new_cols, seen,
          grid, block, wb, sheet_i, dfs, outcome>>

----------------------------------------------------------------------------
(* Python strings and the pieces of `re` the source uses *)

UpperCase == <<"A","B","C","D","E","F","G","H","I","J","K","L","M",
               "N","O","P","Q","R","S","T","U","V","W","X","Y","Z">>
LowerCase == <<"a","b","c","d","e","f","g","h","i","j","k","l","m",
               "n","o","p","q","r","s","t","u","v","w","x","y","z">>
Digits == {"0","1","2","3","4","5","6","7","8","9"}

IsSpace(c) == c = " "

\* str.lower() of one character (re.I compares case-folded characters)
LowerOf == [c \in {UpperCase[i] : i \in 1..26} |-> LowerCase[CHOOSE i \in 1..26 : UpperCase[i] = c]]
IsUpper(c) == c \in DOMAIN LowerOf
ToLower(c) == IF IsUpper(c) THEN LowerOf[c] ELSE c

\* s[from:] in Python, 1-based here
Drop(s, n) == SubSeq(s, n + 1, Len(s))

\* the literal word p matches s at offset k (0-based), ignoring case
MatchAtCI(s, p, k) ==
    /\ k + Len(p) <= Len(s)
    /\ \A i \in 1..Len(p) : ToLower(s[k + i]) = ToLower(p[i])

\* re.match(r'(?i)^p.*$', s)
StartsWithCI(s, p) == MatchAtCI(s, p, 0)

\* re.match(r'(?i).*p.*', s)
ContainsCI(s, p) == \E k \in 0..Len(s) : MatchAtCI(s, p, k)

\* number of leading whitespace characters of s (what a greedy \s* takes)
RECURSIVE LeadingSpaces(_)
LeadingSpaces(s) ==
    IF s # <<>> /\ IsSpace(Head(s)) THEN 1 + LeadingSpaces(Tail(s)) ELSE 0

RECURSIVE TrailingSpaces(_)
TrailingSpaces(s) ==
    IF s # <<>> /\ IsSpace(s[Len(s)]) THEN 1 + TrailingSpaces(SubSeq(s, 1, Len(s) - 1)) ELSE 0

\* str.strip()
Strip(s) ==
    LET a == LeadingSpaces(s)
    IN  IF a = Len(s) THEN <<>> ELSE SubSeq(s, a + 1, Len(s) - TrailingSpaces(s))

\* keep the elements of s that satisfy Keep, in order (a list comprehension)
RECURSIVE SelectIn(_, _)
SelectIn(s, keep) ==
    IF s = <<>> THEN <<>>
    ELSE (IF Head(s) \in keep THEN <<Head(s)>> ELSE <<>>) \o SelectIn(Tail(s), keep)

SeqToSet(s) == {s[i] : i \in 1..Len(s)}

----------------------------------------------------------------------------
(* DataTransformer.detect_location_columns *)

sLocation  == <<"l","o","c","a","t","i","o","n">>
sLoc       == <<"l","o","c">>
sStore     == <<"s","t","o","r","e">>
sWarehouse == <<"w","a","r","e","h","o","u","s","e">>
sBranch    == <<"b","r","a","n","c","h">>
sRegion    == <<"r","e","g","i","o","n">>
sSite      == <<"s","i","t","e">>
sFacility  == <<"f","a","c","i","l","i","t","y">>
sCode      == <<"c","o","d","e">>
sId        == <<"i","d">>
sDescr     == <<"d","e","s","c","r">>
sItem      == <<"i","t","e","m">>
sProduct   == <<"p","r","o","d","u","c","t">>
sSku       == <<"s","k","u">>
sTotalLc   == <<"t","o","t","a","l">>

nTotal       == <<"T","o","t","a","l">>
nSum         == <<"S","u","m">>
nGrandTotal  == <<"G","r","a","n","d"," ","T","o","t","a","l">>
nValue       == <<"V","a","l","u","e">>
nInventoryUnits == <<"I","n","v","e","n","t","o","r","y"," ","U","n","i","t","s">>
nLocations   == <<"L","o","c","a","t","i","o","n","s">>
nSheet       == <<"_","s","h","e","e","t">>

\* loc_patterns: r'^[A-Z]$', r'^[A-Z]\d+$' and the (?i)^word.*$ list
loc_words == {sLocation, sLoc, sStore, sWarehouse, sBranch, sRegion, sSite, sFacility}
is_loc(col_str) ==
    \/ Len(col_str) = 1 /\ IsUpper(col_str[1])
    \/ /\ Len(col_str) >= 2
       /\ IsUpper(col_str[1])
       /\ \A i \in 2..Len(col_str) : col_str[i] \in Digits
    \/ \E w \in loc_words : StartsWithCI(col_str, w)

\* id_patterns: (?i).*word.* list
id_words == {sCode, sId, sDescr, sItem, sProduct, sSku}
is_id(col_str) == \E w \in id_words : ContainsCI(col_str, w)

\* total_pattern = r'(?i)^total.*$'
is_total(col_str) == StartsWithCI(col_str, sTotalLc)

summary_names == {nTotal, nSum, nGrandTotal}

\* the loop body with the Identifier test ahead of the Location test
classify_step_id_first(acc, col_str) ==
    IF is_total(col_str) THEN [acc EXCEPT !.total_col = <<col_str>>]
    ELSE IF is_id(col_str) THEN [acc EXCEPT !.id_cols = Append(@, col_str)]
    ELSE IF is_loc(col_str) THEN [acc EXCEPT !.loc_cols = Append(@, col_str)]
    ELSE IF col_str \notin summary_names THEN [acc EXCEPT !.id_cols = Append(@, col_str)]
    ELSE acc

\* one pass of the loop body over a column, on the accumulators
classify_step(acc, col_str) ==
    IF is_total(col_str) THEN [acc EXCEPT !.total_col = <<col_str>>]
    ELSE IF is_loc(col_str) THEN [acc EXCEPT !.loc_cols = Append(@, col_str)]
    ELSE IF is_id(col_str) THEN [acc EXCEPT !.id_cols = Append(@, col_str)]
    ELSE IF col_str \notin summary_names THEN [acc EXCEPT !.id_cols = Append(@, col_str)]
    ELSE acc

RECURSIVE classify_loop(_, _)
classify_loop(acc, cols) ==
    IF cols = <<>> THEN acc
    ELSE classify_loop(classify_step(acc, Head(cols)), Tail(cols))

\* re.match(r'(?i)Total\s+(.*)', total_col): <<>> when no match, else <<group(1)>>
value_match(total_col) ==
    IF ~StartsWithCI(total_col, sTotalLc) THEN <<>>
    ELSE LET rest == Drop(total_col, 5)
             n == LeadingSpaces(rest)
         IN  IF n = 0 THEN <<>> ELSE <<Drop(rest, n)>>

derive_value_col(acc) ==
    IF acc.loc_cols # <<>>
    THEN IF acc.total_col # <<>>
         THEN LET m == value_match(acc.total_col[1])
              IN  IF m # <<>> THEN <<m[1]>> ELSE <<nValue>>
         ELSE <<nValue>>
    ELSE <<>>

detect_location_columns(cols) ==
    LET acc == classify_loop([loc_cols |-> <<>>, id_cols |-> <<>>, total_col |-> <<>>], cols)
    IN  [id_cols |-> acc.id_cols, loc_cols |-> acc.loc_cols,
         value_col |-> derive_value_col(acc)]

----------------------------------------------------------------------------
(* Tables.  A DataFrame is [columns, rows]; a row is [cells, src] where     *)
(* cells is aligned with columns and src is a history field: the position  *)
(* in the table given to transform_wide_to_long of the row it was made     *)
(* from.  A cell is [t, n, s]: NaN/None, a number n, or a string s.        *)

MinColumns == 3

NaN      == [t |-> "nan", n |-> 0, s |-> <<>>]
Num(k)   == [t |-> "num", n |-> k, s |-> <<>>]
Str(x)   == [t |-> "str", n |-> 0, s |-> x]

IndexOf(cols, name) == CHOOSE i \in 1..Len(cols) : cols[i] = name
CellOf(table, row, name) == row.cells[IndexOf(table.columns, name)]

\* df.drop(names, axis=1)
drop_columns(table, names) ==
    LET keep == {i \in 1..Len(table.columns) : table.columns[i] \notin names}
        pick(s) == LET RECURSIVE go(_)
                       go(i) == IF i > Len(s) THEN <<>>
                                ELSE (IF i \in keep THEN <<s[i]>> ELSE <<>>) \o go(i + 1)
                   IN  go(1)
    IN  [columns |-> pick(table.columns),
         rows |-> [r \in 1..Len(table.rows) |->
                     [table.rows[r] EXCEPT !.cells = pick(@)]]]

\* the records pd.melt makes for one value_var: one per row of the frame, in row order
melt_var(table, id_vars, loc) ==
    [r \in 1..Len(table.rows) |->
        [cells |-> [i \in 1..Len(id_vars) |-> CellOf(table, table.rows[r], id_vars[i])]
                   \o <<Str(loc), CellOf(table, table.rows[r], loc)>>,
         src |-> table.rows[r].src]]

\* pd.melt(df, id_vars, value_vars, var_name, value_name): the blocks of the
\* value_vars one after the other, in value_vars order
RECURSIVE melt_rows(_, _, _)
melt_rows(table, id_vars, value_vars) ==
    IF value_vars = <<>> THEN <<>>
    ELSE melt_var(table, id_vars, Head(value_vars))
         \o melt_rows(table, id_vars, Tail(value_vars))

melt(table, id_vars, value_vars, var_name, value_name) ==
    [columns |-> id_vars \o <<var_name, value_name>>,
     rows |-> melt_rows(table, id_vars, value_vars)]

\* the filter without its != 0 step
keep_value_nan_only(cell) == cell.t # "nan"

\* result.dropna(subset=[v]) then result[result[v] != 0]
keep_value(cell) == cell.t # "nan" /\ ~(cell.t = "num" /\ cell.n = 0)

RECURSIVE filter_rows(_, _)
filter_rows(rows, at) ==
    IF rows = <<>> THEN <<>>
    ELSE (IF keep_value(Head(rows).cells[at]) THEN <<Head(rows)>> ELSE <<>>)
         \o filter_rows(Tail(rows), at)

\* np.repeat(sheet_col.values, n)[:length]
repeat_truncate(values, n, length) ==
    [k \in 1..length |-> values[((k - 1) \div n) + 1]]

\* result['_sheet'] = sheet_values
attach_sheet(table, sheet_values) ==
    [columns |-> Append(table.columns, nSheet),
     rows |-> [k \in 1..Len(table.rows) |->
                 [table.rows[k] EXCEPT !.cells = Append(@, sheet_values[k])]]]

\* value_col or 'Inventory Units'
value_name_of(value_col) ==
    IF value_col # <<>> /\ value_col[1] # <<>> THEN value_col[1] ELSE nInventoryUnits

transform_wide_to_long(table) ==
    IF table.rows = <<>> \/ table.columns = <<>> \/ Len(table.columns) < MinColumns
    THEN table
    ELSE
    LET d == detect_location_columns(table.columns)
    IN  IF d.loc_cols = <<>> THEN table
        ELSE
        LET has_sheet == nSheet \in SeqToSet(table.columns)
            sheet_col == [r \in 1..Len(table.rows) |-> CellOf(table, table.rows[r], nSheet)]
            df1 == IF has_sheet THEN drop_columns(table, {nSheet}) ELSE table
            id_cols == IF has_sheet
                       THEN SelectIn(d.id_cols, SeqToSet(d.id_cols) \ {nSheet})
                       ELSE d.id_cols
            total_cols == {c \in SeqToSet(df1.columns) : is_total(c)}
            df2 == IF total_cols # {} THEN drop_columns(df1, total_cols) ELSE df1
            vname == value_name_of(d.value_col)
            melted == melt(df2, id_cols, d.loc_cols, nLocations, vname)
            kept == [melted EXCEPT !.rows = filter_rows(@, Len(id_cols) + 2)]
        IN  IF has_sheet
            THEN attach_sheet(kept, repeat_truncate(sheet_col, Len(d.loc_cols), Len(kept.rows)))
            ELSE kept

----------------------------------------------------------------------------
(* FileProcessor._load_excel: renaming of duplicate column names *)

DigitChars == <<"0","1","2","3","4","5","6","7","8","9">>

\* str(k) for a non-negative int
RECURSIVE IntToStr(_)
IntToStr(k) ==
    IF k < 10 THEN <<DigitChars[k + 1]>>
    ELSE IntToStr(k \div 10) \o <<DigitChars[(k % 10) + 1]>>

\* f"{col}_{k}"
suffixed(col, k) == col \o <<"_">> \o IntToStr(k)

\* df.columns.is_unique
is_unique(cols) == \A i \in 1..Len(cols) : \A j \in 1..Len(cols) : cols[i] = cols[j] => i = j

\* one pass of `for col in df.columns` on (seen, new_cols)
rename_step(acc, col) ==
    IF col \in DOMAIN acc.seen
    THEN [seen |-> [acc.seen EXCEPT ![col] = @ + 1],
          new_cols |-> Append(acc.new_cols, suffixed(col, acc.seen[col] + 1))]
    ELSE [seen |-> [c \in DOMAIN acc.seen \cup {col} |->
                       IF c = col THEN 0 ELSE acc.seen[c]],
          new_cols |-> Append(acc.new_cols, col)]

RECURSIVE rename_loop(_, _)
rename_loop(acc, cols) ==
    IF cols = <<>> THEN acc
    ELSE rename_loop(rename_step(acc, Head(cols)), Tail(cols))

\* lines 116-131: (seen, new_cols) after the step; the columns stay as read
\* when they are already unique
rename_duplicates(cols) ==
    IF is_unique(cols) THEN [seen |-> <<>>, new_cols |-> cols]
    ELSE rename_loop([seen |-> <<>>, new_cols |-> <<>>], cols)

----------------------------------------------------------------------------
(* SpreadsheetTransformer._extract_core_block *)

MinNonEmpty == 2

EmptyStr == Str(<<>>)

\* cell not in [None, ""]
non_empty(cell) == cell.t # "nan" /\ cell # EmptyStr

CountNonEmpty(row) == Cardinality({i \in 1..Len(row) : non_empty(row[i])})

\* the header test with one non-empty cell being enough
is_header_row_one_cell(row) ==
    /\ CountNonEmpty(row) >= 1
    /\ \A i \in 1..Len(row) : non_empty(row[i]) => row[i].t = "str"

\* len(non_empty) >= 2 and all(isinstance(cell, str) for cell in non_empty)
is_header_row(row) ==
    /\ CountNonEmpty(row) >= MinNonEmpty
    /\ \A i \in 1..Len(row) : non_empty(row[i]) => row[i].t = "str"

\* index of the row the scan breaks at, 0 when it runs off the grid
RECURSIVE find_header(_, _)
find_header(rows, i) ==
    IF i > Len(rows) THEN 0
    ELSE IF is_header_row(rows[i]) THEN i
    ELSE find_header(rows, i + 1)

\* str(cell).strip() if cell else ""
header_name(cell) == IF cell.t = "str" /\ cell.s # <<>> THEN Strip(cell.s) ELSE <<>>

\* the contiguous rows below the header with at least 2 non-empty cells
RECURSIVE data_block(_, _, _)
data_block(rows, i, width) ==
    IF i > Len(rows) \/ CountNonEmpty(rows[i]) < MinNonEmpty THEN <<>>
    ELSE <<SubSeq(rows[i], 1, IF Len(rows[i]) < width THEN Len(rows[i]) ELSE width)>>
         \o data_block(rows, i + 1, width)

sCustomer == <<"c","u","s","t","o","m","e","r">>
sPeriod   == <<"p","e","r","i","o","d">>
sEvent    == <<"e","v","e","n","t">>
context_labels == {sCustomer, sPeriod, sEvent}
Separators == {":", "-"}

\* re.match(r"(Customer|Period|Event)\s*[:\-]?\s*(.+)", cell, re.I):
\* <<>> when no match, else <<[key |-> group(1).strip(), value |-> group(2).strip()]>>.
\* The quantifiers are greedy; when they leave nothing for (.+) the last of
\* them that took a character gives one back.
context_match(text) ==
    IF ~\E l \in context_labels : StartsWithCI(text, l) THEN <<>>
    ELSE
    LET l == CHOOSE l \in context_labels : StartsWithCI(text, l)
        rem == Drop(text, Len(l))
        w1 == LeadingSpaces(rem)
        r1 == Drop(rem, w1)
        has_sep == r1 # <<>> /\ r1[1] \in Separators
        r2 == IF has_sep THEN Drop(r1, 1) ELSE r1
        w2 == LeadingSpaces(r2)
        rest == Drop(r2, w2)
        group2 == IF rest # <<>> THEN rest
                  ELSE IF w2 > 0 THEN <<" ">>
                  ELSE IF has_sep THEN <<r1[1]>>
                  ELSE <<" ">>
    IN  IF rem = <<>> THEN <<>>
        ELSE <<[key |-> Strip(SubSeq(text, 1, Len(l))), value |-> Strip(group2)]>>

\* context[key] = value on a dict kept as its items in insertion order
dict_set(items, key, value) ==
    IF \E i \in 1..Len(items) : items[i].key = key
    THEN [i \in 1..Len(items) |->
            IF items[i].key = key THEN [key |-> key, value |-> value] ELSE items[i]]
    ELSE Append(items, [key |-> key, value |-> value])

\* the inner `for cell in row` of the context scan
RECURSIVE context_of_row(_, _)
context_of_row(items, row) ==
    IF row = <<>> THEN items
    ELSE LET m == IF Head(row).t = "str" THEN context_match(Head(row).s) ELSE <<>>
         IN  context_of_row(IF m # <<>> THEN dict_set(items, m[1].key, m[1].value) ELSE items,
                            Tail(row))

\* `for row in rows[:header_row_idx]`
RECURSIVE context_of_rows(_, _)
context_of_rows(items, rows) ==
    IF rows = <<>> THEN items
    ELSE context_of_rows(context_of_row(items, Head(rows)), Tail(rows))

\* (core_block, context): core_block is <<>> for None
extract_core_block(rows) ==
    LET header_row_idx == find_header(rows, 1)
    IN  IF header_row_idx = 0 THEN [core_block |-> <<>>, context |-> <<>>]
        ELSE LET headers == [i \in 1..Len(rows[header_row_idx]) |->
                                header_name(rows[header_row_idx][i])]
             IN  [core_block |-> <<[headers |-> headers,
                                    data |-> data_block(rows, header_row_idx + 1, Len(headers))]>>,
                  context |-> context_of_rows(<<>>, SubSeq(rows, 1, header_row_idx - 1))]

----------------------------------------------------------------------------
(* Building and concatenating tables *)

\* rows numbered by their position (a fresh RangeIndex)
reset_index(cellRows) ==
    [r \in 1..Len(cellRows) |-> [cells |-> cellRows[r], src |-> r]]

\* df[name] = cell: the column is overwritten in place, or added at the end
assign_column(table, name, cell) ==
    IF name \in SeqToSet(table.columns)
    THEN [table EXCEPT !.rows =
            [r \in 1..Len(table.rows) |->
                [table.rows[r] EXCEPT !.cells[IndexOf(table.columns, name)] = cell]]]
    ELSE [columns |-> Append(table.columns, name),
          rows |-> [r \in 1..Len(table.rows) |->
                      [table.rows[r] EXCEPT !.cells = Append(@, cell)]]]

\* the columns of pd.concat: those of each frame, in order of first appearance
RECURSIVE concat_columns(_, _)
concat_columns(acc, frames) ==
    IF frames = <<>> THEN acc
    ELSE concat_columns(acc \o SelectIn(Head(frames).columns,
                                       SeqToSet(Head(frames).columns) \ SeqToSet(acc)),
                        Tail(frames))

RECURSIVE concat_rows(_, _)
concat_rows(cols, frames) ==
    IF frames = <<>> THEN <<>>
    ELSE [r \in 1..Len(Head(frames).rows) |->
            [i \in 1..Len(cols) |->
                IF cols[i] \in SeqToSet(Head(frames).columns)
                THEN CellOf(Head(frames), Head(frames).rows[r], cols[i])
                ELSE NaN]]
         \o concat_rows(cols, Tail(frames))

\* pd.concat(frames, ignore_index=True)
concat(frames) ==
    LET cols == concat_columns(<<>>, frames)
    IN  [columns |-> cols, rows |-> reset_index(concat_rows(cols, frames))]

\* pd.DataFrame()
EmptyFrame == [columns |-> <<>>, rows |-> <<>>]

SheetNameOf(i) == <<"S">> \o IntToStr(i)

----------------------------------------------------------------------------
(* FileProcessor._load_excel, one sheet: the frame appended to dfs *)

load_sheet(table, sheet_name) ==
    assign_column([columns |-> rename_duplicates(table.columns).new_cols,
                   rows |-> reset_index(table.rows)],
                  nSheet, Str(sheet_name))

(* SpreadsheetTransformer.recognize_core_blocks, one sheet: the frame handed *)
(* to transform_wide_to_long                                                 *)

RECURSIVE attach_context(_, _)
attach_context(table, items) ==
    IF items = <<>> THEN table
    ELSE attach_context(assign_column(table, Head(items).key, Str(Head(items).value)),
                        Tail(items))

block_frame(blk, sheet_name) ==
    assign_column(
        attach_context([columns |-> blk.core_block[1].headers,
                        rows |-> reset_index(blk.core_block[1].data)],
                       blk.context),
        nSheet, Str(sheet_name))

----------------------------------------------------------------------------
(* Column names the inputs are drawn from *)

cItem == <<"I","t","e","m">>
cA == <<"A">>
cB == <<"B">>
cA1 == <<"A","1">>
cStore3 == <<"S","t","o","r","e"," ","3">>
cStoreID == <<"S","t","o","r","e"," ","I","D">>
cLocationCode == <<"L","o","c","a","t","i","o","n"," ","C","o","d","e">>
cSKUCode == <<"S","K","U"," ","C","o","d","e">>
cItemID == <<"I","t","e","m"," ","I","D">>
cTotalUnits == <<"T","o","t","a","l"," ","U","n","i","t","s">>
cTotalSpace == <<"T","o","t","a","l"," ">>
cTotalUnitsJoined == <<"T","o","t","a","l","U","n","i","t","s">>
cTOTALqty == <<"T","O","T","A","L"," "," ","q","t","y">>
cQty == <<"Q","t","y">>
cPrice == <<"P","r","i","c","e">>
cName == <<"N","a","m","e">>
cLowerA == <<"a">>
cAB == <<"A","B">>
cA1b == <<"A","1","b">>
cVideo == <<"V","i","d","e","o">>
cRegion == <<"r","e","g","i","o","n">>
cUnits == <<"U","n","i","t","s">>

NamePool == {cItem, cA, cB, cA1, cStore3, cStoreID, cLocationCode, cSKUCode, cItemID,
             cTotalUnits, cTotalSpace, cTotalUnitsJoined, cTOTALqty, cQty, cPrice, cName,
             cLowerA, cAB, cA1b, cVideo, cRegion, cUnits, nTotal, nSum, nGrandTotal, nSheet}

MaxCols == 2
MaxRows == 2

Idle == <<>>

\* all sequences over S of length lo..hi
SeqsOf(S, lo, hi) == UNION {[1..n -> S] : n \in lo..hi}

----------------------------------------------------------------------------
(* Specification SpecClassify: detect_location_columns on a drawn column list *)

InitClassify ==
    /\ pc = "classify"
    /\ columns \in SeqsOf(NamePool, 1, MaxCols)
    /\ detected = Idle /\ df = Idle /\ result = Idle
    /\ header = Idle /\ new_cols = Idle /\ seen = Idle
    /\ grid = Idle /\ block = Idle
    /\ wb = Idle /\ sheet_i = 0 /\ dfs = Idle /\ outcome = Idle

DetectLocationColumns ==
    /\ pc = "classify"
    /\ detected' = detect_location_columns(columns)
    /\ pc' = "classified"
    /\ UNCHANGED <<columns, df, result, header, new_cols, seen, grid, block,
                   wb, sheet_i, dfs, outcome>>

NextClassify == DetectLocationColumns

SpecClassify == InitClassify /\ [][NextClassify]_vars

----------------------------------------------------------------------------
(* Specification SpecTransform: transform_wide_to_long on a drawn table *)

sheetS1 == <<"S","1">>
sheetS2 == <<"S","2">>
SheetNames == {sheetS1, sheetS2}

Headers == {
    <<cItem, cA, cB, cTotalUnits>>,
    <<cItem, cA, cB, nSheet>>,
    <<cItem, cStore3, cA1, cTotalSpace, nSheet>>,
    <<cSKUCode, cA, cTotalUnitsJoined, nSheet>>,
    <<cItem, cQty, cPrice>>,
    <<cA, nSheet>>,
    <<cName, nSum, cB, nGrandTotal, nSheet>>,
    <<cA, cItem, cTOTALqty, cB>> }

\* cells a reader can deliver under a column name
CellsFor(name) ==
    IF name = nSheet THEN {Str(n) : n \in SheetNames}
    ELSE IF is_total(name) \/ name \in summary_names THEN {Num(9)}
    ELSE IF is_loc(name) THEN {NaN, Num(0), Num(5)}
    ELSE {Str(<<"x">>)}

RECURSIVE RowsFor(_)
RowsFor(cols) ==
    IF cols = <<>> THEN {<<>>}
    ELSE {<<c>> \o r : c \in CellsFor(Head(cols)), r \in RowsFor(Tail(cols))}

\* a table whose rows carry their own positions as src
MakeTable(cols, cellRows) ==
    [columns |-> cols,
     rows |-> [r \in 1..Len(cellRows) |-> [cells |-> cellRows[r], src |-> r]]]

InitTransform ==
    /\ pc = "transform"
    /\ \E h \in Headers : \E n \in 0..MaxRows : \E rs \in [1..n -> RowsFor(h)] :
          df = MakeTable(h, rs)
    /\ columns = Idle /\ detected = Idle /\ result = Idle
    /\ header = Idle /\ new_cols = Idle /\ seen = Idle
    /\ grid = Idle /\ block = Idle
    /\ wb = Idle /\ sheet_i = 0 /\ dfs = Idle /\ outcome = Idle

TransformWideToLong ==
    /\ pc = "transform"
    /\ result' = transform_wide_to_long(df)
    /\ pc' = "transformed"
    /\ UNCHANGED <<columns, detected, df, header, new_cols, seen, grid, block,
                   wb, sheet_i, dfs, outcome>>

NextTransform == TransformWideToLong

SpecTransform == InitTransform /\ [][NextTransform]_vars

----------------------------------------------------------------------------
(* Properties of detect_location_columns and transform_wide_to_long *)

\* the role a column name has under the documented rule order
RoleOf(name) ==
    IF StartsWithCI(name, nTotal) THEN "Total"
    ELSE IF is_loc(name) THEN "Location"
    ELSE IF is_id(name) THEN "Identifier"
    ELSE IF name \in {nTotal, nSum, nGrandTotal} THEN "Total"
    ELSE "Identifier"

NamesWithRole(cols, role) == {cols[i] : i \in {j \in 1..Len(cols) : RoleOf(cols[j]) = role}}

\* C5: detect_location_columns gives every column name the one role of the
\* first rule that matches it (Total prefix, Location pattern, Identifier
\* pattern, summary literal, default Identifier): the location list holds
\* exactly the Location names and the identifier list exactly the Identifier
\* names, each in column order, and no name is in both lists.
C5_RolesByPriority ==
    pc = "classified" =>
        /\ detected.loc_cols = SelectIn(columns, NamesWithRole(columns, "Location"))
        /\ detected.id_cols = SelectIn(columns, NamesWithRole(columns, "Identifier"))
        /\ SeqToSet(detected.loc_cols) \cap SeqToSet(detected.id_cols) = {}
        /\ \A n \in NamesWithRole(columns, "Total") :
              n \notin SeqToSet(detected.loc_cols) \cup SeqToSet(detected.id_cols)

\* a name matching both a Location and an Identifier pattern was classified
\* next to a summary literal
C5_Witness ==
    /\ pc = "classified"
    /\ \E i \in 1..Len(columns) :
          is_loc(columns[i]) /\ is_id(columns[i]) /\ columns[i] \in SeqToSet(detected.loc_cols)
    /\ \E i \in 1..Len(columns) : columns[i] \in {nSum, nGrandTotal}

\* the table is one transform_wide_to_long reshapes
Reshaped ==
    /\ pc = "transformed"
    /\ df.rows # <<>>
    /\ Len(df.columns) >= MinColumns
    /\ NamesWithRole(df.columns, "Location") # {}

LocationOf(rec) == CellOf(result, rec, nLocations).s
ValueColumn == result.columns[IndexOf(result.columns, nLocations) + 1]
ValueOf(rec) == CellOf(result, rec, ValueColumn)
Present(cell) == cell.t # "nan" /\ cell # Num(0)

\* C1: every output record carries the _sheet value of the source row that
\* produced it, whichever records the null/zero filter dropped.
C1_SheetTagOfSourceRow ==
    Reshaped /\ nSheet \in SeqToSet(df.columns) =>
        /\ nSheet \in SeqToSet(result.columns)
        /\ \A k \in 1..Len(result.rows) :
              CellOf(result, result.rows[k], nSheet)
                  = CellOf(df, df.rows[result.rows[k].src], nSheet)

\* C2: the records are ordered by source row and, within one source row, by
\* Location column from left to right.
C2_RowMajorOrder ==
    Reshaped =>
        \A p \in 1..Len(result.rows) : \A q \in 1..Len(result.rows) :
            p < q =>
                \/ result.rows[p].src < result.rows[q].src
                \/ /\ result.rows[p].src = result.rows[q].src
                   /\ IndexOf(df.columns, LocationOf(result.rows[p]))
                        < IndexOf(df.columns, LocationOf(result.rows[q]))

\* the (source row, Location column) pairs whose cell is present and non-zero
KeptPairs ==
    {<<r, c>> \in (1..Len(df.rows)) \X NamesWithRole(df.columns, "Location") :
        Present(CellOf(df, df.rows[r], c))}

\* C3: with at least 3 columns and a Location column, the output holds exactly
\* one record per (source row, Location column) pair whose cell is present and
\* non-zero, carrying that cell, and nothing else; Total columns give no
\* record; with no missing or zero cell there are R x L records.
C3_OneRecordPerKeptPair ==
    /\ pc = "transformed" /\ df.rows = <<>> => result.rows = <<>>
    /\ Reshaped =>
        /\ nLocations \in SeqToSet(result.columns)
        /\ {<<result.rows[k].src, LocationOf(result.rows[k])>> : k \in 1..Len(result.rows)}
              = KeptPairs
        /\ Len(result.rows) = Cardinality(KeptPairs)
        /\ \A k \in 1..Len(result.rows) :
              /\ ValueOf(result.rows[k])
                   = CellOf(df, df.rows[result.rows[k].src], LocationOf(result.rows[k]))
              /\ RoleOf(LocationOf(result.rows[k])) = "Location"
        /\ (\A r \in 1..Len(df.rows) : \A c \in NamesWithRole(df.columns, "Location") :
                Present(CellOf(df, df.rows[r], c)))
              => Len(result.rows)
                   = Len(df.rows) * Cardinality(NamesWithRole(df.columns, "Location"))

\* two rows and two Location columns beside a Total column, with a record
\* dropped ahead of a record that was kept
C3_Witness ==
    /\ Reshaped
    /\ Len(df.rows) = 2
    /\ Cardinality(NamesWithRole(df.columns, "Location")) = 2
    /\ NamesWithRole(df.columns, "Total") # {}
    /\ ~Present(CellOf(df, df.rows[1], cB))
    /\ Len(result.rows) = 3

\* C10: the value column is named by the Total column's name without its
\* leading "Total" when there is a Total column and the strip succeeds, and
\* "Value" in every other case.
C10_ValueColumnName ==
    Reshaped =>
        LET stripped == {value_match(t)[1] :
                            t \in {n \in NamesWithRole(df.columns, "Total") :
                                      StartsWithCI(n, nTotal) /\ value_match(n) # <<>>}}
        IN  IF stripped # {} THEN ValueColumn \in stripped ELSE ValueColumn = nValue

----------------------------------------------------------------------------
(* Specification SpecDedupe: the duplicate renaming of _load_excel on a drawn header *)

hCode == <<"C","o","d","e">>
hCode1 == <<"C","o","d","e","_","1">>
hCode2 == <<"C","o","d","e","_","2">>
hQty == <<"Q","t","y">>
HeaderNames == {hCode, hCode1, hCode2, hQty}

MaxHeader == 3

InitDedupe ==
    /\ pc = "rename"
    /\ header \in SeqsOf(HeaderNames, 1, MaxHeader)
    /\ columns = Idle /\ detected = Idle /\ df = Idle /\ result = Idle
    /\ new_cols = Idle /\ seen = Idle
    /\ grid = Idle /\ block = Idle
    /\ wb = Idle /\ sheet_i = 0 /\ dfs = Idle /\ outcome = Idle

RenameDuplicates ==
    /\ pc = "rename"
    /\ new_cols' = rename_duplicates(header).new_cols
    /\ seen' = rename_duplicates(header).seen
    /\ pc' = "renamed"
    /\ UNCHANGED <<columns, detected, df, result, header, grid, block,
                   wb, sheet_i, dfs, outcome>>

NextDedupe == RenameDuplicates

SpecDedupe == InitDedupe /\ [][NextDedupe]_vars

\* how many times header[i] occurs before position i
RepeatsBefore(i) == Cardinality({j \in 1..(i - 1) : header[j] = header[i]})

\* C4: the rewritten header has pairwise distinct names; the first occurrence
\* of a name is unchanged and its k-th repeat is "<name>_<k>".
C4_RenamedHeaderDistinct ==
    pc = "renamed" =>
        /\ Len(new_cols) = Len(header)
        /\ \A i \in 1..Len(header) :
              new_cols[i] = IF RepeatsBefore(i) = 0 THEN header[i]
                            ELSE suffixed(header[i], RepeatsBefore(i))
        /\ \A i \in 1..Len(new_cols) : \A j \in 1..Len(new_cols) :
              new_cols[i] = new_cols[j] => i = j

----------------------------------------------------------------------------
(* Specification SpecExtract: _extract_core_block on a drawn worksheet grid *)

tCustomerAcme == <<"C","u","s","t","o","m","e","r",":"," ","A","c","m","e">>
tCustomerBolt == <<"C","U","S","T","O","M","E","R",":"," ","B","o","l","t">>
tPeriodQ1 == <<"P","e","r","i","o","d"," ","-"," ","Q","1">>
tEventExpo == <<"E","v","e","n","t",":","E","x","p","o">>
tCustomerBare == <<"C","u","s","t","o","m","e","r"," ">>
tItem == <<"I","t","e","m">>
tPaddedA == <<" ","A"," ">>
tCode == <<"C","o","d","e">>
tB == <<"B">>
tX == <<"x">>
nCustomer == <<"C","u","s","t","o","m","e","r">>
nPeriod == <<"P","e","r","i","o","d">>
nEvent == <<"E","v","e","n","t">>

rowCustomerAcme == <<Str(tCustomerAcme), NaN>>
rowCustomerBolt == <<Str(tCustomerBolt), NaN>>
rowPeriod       == <<NaN, Str(tPeriodQ1)>>
rowEventNumber  == <<Str(tEventExpo), Num(1)>>
rowCustomerBare == <<Str(tCustomerBare), EmptyStr>>
rowHeader       == <<Str(tItem), Str(tPaddedA)>>
rowHeaderCodeB  == <<Str(tCode), Str(tB)>>
rowData         == <<Str(tX), Num(5)>>
rowNumbers      == <<Num(0), Num(7)>>
rowBlank        == <<NaN, EmptyStr>>

RowPool == {rowCustomerAcme, rowCustomerBolt, rowPeriod, rowEventNumber, rowCustomerBare,
            rowHeader, rowHeaderCodeB, rowData, rowNumbers, rowBlank}

MaxGridRows == 3

InitExtract ==
    /\ pc = "extract"
    /\ grid \in SeqsOf(RowPool, 0, MaxGridRows)
    /\ columns = Idle /\ detected = Idle /\ df = Idle /\ result = Idle
    /\ header = Idle /\ new_cols = Idle /\ seen = Idle
    /\ block = Idle
    /\ wb = Idle /\ sheet_i = 0 /\ dfs = Idle /\ outcome = Idle

ExtractCoreBlock ==
    /\ pc = "extract"
    /\ block' = extract_core_block(grid)
    /\ pc' = "extracted"
    /\ UNCHANGED <<columns, detected, df, result, header, new_cols, seen, grid,
                   wb, sheet_i, dfs, outcome>>

NextExtract == ExtractCoreBlock

SpecExtract == InitExtract /\ [][NextExtract]_vars

\* a row with at least 2 non-empty cells, all of them text
TextualRow(row) ==
    LET filled == {i \in 1..Len(row) : row[i] # NaN /\ row[i] # EmptyStr}
    IN  Cardinality(filled) >= 2 /\ \A i \in filled : row[i].t = "str"

TextualRows == {i \in 1..Len(grid) : TextualRow(grid[i])}
FirstTextualRow == CHOOSE i \in TextualRows : \A j \in TextualRows : i <= j

\* C6: the header is the first row, from the top, with at least 2 non-empty
\* cells that are all text, and the data block starts right below it; with
\* no such row the result is None with an empty context.
C6_FirstTextualRowIsHeader ==
    pc = "extracted" =>
        IF TextualRows = {}
        THEN block.core_block = <<>> /\ block.context = <<>>
        ELSE /\ block.core_block # <<>>
             /\ block.core_block[1].headers
                  = [i \in 1..Len(grid[FirstTextualRow]) |->
                        Strip(grid[FirstTextualRow][i].s)]
             /\ \A k \in 1..Len(block.core_block[1].data) :
                  block.core_block[1].data[k] = grid[FirstTextualRow + k]

\* the header was found on the third row, below a row with a single text
\* cell and a row mixing text and a number
C6_Witness ==
    /\ pc = "extracted"
    /\ Len(grid) = 3
    /\ grid[1] = rowCustomerAcme /\ grid[2] = rowData /\ grid[3] = rowHeader
    /\ block.core_block # <<>>
    /\ block.core_block[1].headers = <<tItem, <<"A">> >>

\* the text cells above the header, top to bottom and left to right
RECURSIVE CellsAbove(_)
CellsAbove(n) ==
    IF n = 0 THEN <<>>
    ELSE CellsAbove(n - 1)
         \o SelectIn(grid[n], {c \in SeqToSet(grid[n]) : c.t = "str"})

\* C7: for each label of {Customer, Period, Event}, the context holds under
\* that label the value of the last cell above the header that matches it,
\* whatever the letter case of the matching cells.
C7_LastMatchWinsAnyCase ==
    pc = "extracted" /\ block.core_block # <<>> =>
        \A label \in {nCustomer, nPeriod, nEvent} :
            LET cells == CellsAbove(FirstTextualRow - 1)
                hits == {i \in 1..Len(cells) :
                            /\ StartsWithCI(cells[i].s, label)
                            /\ context_match(cells[i].s) # <<>>}
            IN  hits # {} =>
                  LET last == CHOOSE i \in hits : \A j \in hits : j <= i
                  IN  \E k \in 1..Len(block.context) :
                        /\ block.context[k].key = label
                        /\ block.context[k].value = context_match(cells[last].s)[1].value

----------------------------------------------------------------------------
(* Specification SpecWorkbook: a workbook through FileProcessor (_load_excel, *)
(* _load_file, _process_single) or through recognize_core_blocks.  A sheet   *)
(* is [content, fault]: what the reader delivers for it, and whether the     *)
(* first call made on the sheet (pd.read_excel, _extract_core_block) raises. *)

tabOneRow  == [columns |-> <<cItem, cA, cB>>,
               rows |-> << <<Str(tX), Num(5), Num(0)>> >>]
tabNoRows  == [columns |-> <<cItem, cA, cB>>, rows |-> <<>>]
tabTwoRows == [columns |-> <<cItem, cA, cB>>,
               rows |-> << <<Str(tX), Num(0), Num(5)>>, <<Str(tX), Num(5), Num(5)>> >>]
tabDupCols == [columns |-> <<hCode, hCode, hQty>>,
               rows |-> << <<Str(tX), Str(tX), Num(5)>> >>]
TablePool == {tabOneRow, tabNoRows, tabTwoRows, tabDupCols}

gridTable      == <<rowHeader, rowData>>
gridNoHeader   == <<rowNumbers, rowBlank>>
gridHeaderOnly == <<rowHeader>>
gridContext    == <<rowCustomerAcme, rowHeader, rowData, rowData>>
GridPool == {gridTable, gridNoHeader, gridHeaderOnly, gridContext}

Faults == {"none", "raise"}

MaxSheets == 2

InitWorkbook ==
    /\ \E path \in {"load_excel", "recognize"} :
          /\ pc = path
          /\ \E n \in 1..MaxSheets :
                wb \in [1..n -> [content : IF path = "load_excel" THEN TablePool ELSE GridPool,
                                fault : Faults]]
    /\ sheet_i = 1
    /\ dfs = <<>>
    /\ outcome = Idle
    /\ columns = Idle /\ detected = Idle /\ df = Idle /\ result = Idle
    /\ header = Idle /\ new_cols = Idle /\ seen = Idle
    /\ grid = Idle /\ block = Idle

Raised == [kind |-> "raised", table |-> EmptyFrame]
Returned(table) == [kind |-> "table", table |-> table]

\* _load_excel, one pass of the sheet loop: an exception of the body is
\* caught and the sheet left out
LoadSheet ==
    /\ pc = "load_excel"
    /\ sheet_i <= Len(wb)
    /\ dfs' = IF wb[sheet_i].fault = "raise" THEN dfs
              ELSE Append(dfs, load_sheet(wb[sheet_i].content, SheetNameOf(sheet_i)))
    /\ sheet_i' = sheet_i + 1
    /\ UNCHANGED <<pc, columns, detected, df, result, header, new_cols, seen,
                   grid, block, wb, outcome>>

\* the end of _load_excel and its callers: ValueError when dfs is empty (and
\* _process_single reports the file as failed), else the concatenation
\* through transform_wide_to_long in _load_file
LoadFinish ==
    /\ pc = "load_excel"
    /\ sheet_i > Len(wb)
    /\ outcome' =
          IF dfs = <<>> THEN Raised
          ELSE Returned(transform_wide_to_long(concat(dfs)))
    /\ pc' = "loaded"
    /\ UNCHANGED <<columns, detected, df, result, header, new_cols, seen,
                   grid, block, wb, sheet_i, dfs>>

\* recognize_core_blocks, one pass of the sheet loop: nothing catches an
\* exception of _extract_core_block
RecognizeSheet ==
    /\ pc = "recognize"
    /\ sheet_i <= Len(wb)
    /\ IF wb[sheet_i].fault = "raise"
       THEN /\ outcome' = Raised /\ pc' = "recognized"
            /\ UNCHANGED <<dfs, sheet_i>>
       ELSE LET blk == extract_core_block(wb[sheet_i].content)
            IN  IF blk.core_block = <<>>
                THEN /\ sheet_i' = sheet_i + 1
                     /\ UNCHANGED <<pc, dfs, outcome>>
                ELSE /\ dfs' = Append(dfs, transform_wide_to_long(
                                              block_frame(blk, SheetNameOf(sheet_i))))
                     /\ sheet_i' = sheet_i + 1
                     /\ UNCHANGED <<pc, outcome>>
    /\ UNCHANGED <<columns, detected, df, result, header, new_cols, seen,
                   grid, block, wb>>

\* the end of recognize_core_blocks
RecognizeFinish ==
    /\ pc = "recognize"
    /\ sheet_i > Len(wb)
    /\ outcome' = IF dfs # <<>> THEN Returned(concat(dfs)) ELSE Returned(EmptyFrame)
    /\ pc' = "recognized"
    /\ UNCHANGED <<columns, detected, df, result, header, new_cols, seen,
                   grid, block, wb, sheet_i, dfs>>

NextWorkbook == LoadSheet \/ LoadFinish \/ RecognizeSheet \/ RecognizeFinish

SpecWorkbook == InitWorkbook /\ [][NextWorkbook]_vars

Finished == pc \in {"loaded", "recognized"}

\* the rows sheet i gives when handled on its own
SheetRows(i) ==
    IF wb[i].fault # "none" THEN <<>>
    ELSE IF pc = "recognized"
    THEN LET blk == extract_core_block(wb[i].content)
         IN  IF blk.core_block = <<>> THEN <<>>
             ELSE transform_wide_to_long(block_frame(blk, SheetNameOf(i))).rows
    ELSE transform_wide_to_long(load_sheet(wb[i].content, SheetNameOf(i))).rows

\* C8: when no sheet of the workbook produced any row, the aggregation ends
\* in an error instead of returning a table.
C8_EmptyResultIsError ==
    Finished /\ (\A i \in 1..Len(wb) : SheetRows(i) = <<>>) =>
        outcome.kind = "raised"

SheetTags(table) ==
    IF nSheet \in SeqToSet(table.columns)
    THEN {CellOf(table, table.rows[k], nSheet).s : k \in 1..Len(table.rows)}
    ELSE {}

\* C9: a failure raised while handling one sheet does not abort the
\* workbook: a table is returned that holds rows of every other sheet that
\* has rows and none of the failed sheet.
C9_SheetFailureIsolated ==
    /\ Finished
    /\ \E i \in 1..Len(wb) : wb[i].fault # "none"
    /\ \E i \in 1..Len(wb) : SheetRows(i) # <<>>
    => /\ outcome.kind = "table"
       /\ SheetTags(outcome.table) = {SheetNameOf(i) : i \in {j \in 1..Len(wb) : SheetRows(j) # <<>>}}

====
